---- MODULE Spec2Model ----
(***************************************************************************)
(* A model of the FABRIK solver of src/ik/src/solver_fabrik.c.             *)
(*                                                                         *)
(* Geometry.  The solver works on three-dimensional vectors and unit       *)
(* quaternions.  The model keeps the skeletons whose bones and effector    *)
(* targets all lie on the local Z axis: a vector is its z component, and   *)
(* a rotation is the identity (1) or the half turn that maps +Z to -Z      *)
(* (-1).  Every statement of the source is kept; only the inputs are       *)
(* restricted.                                                             *)
(*                                                                         *)
(* Numbers.  ikreal is a binary floating-point type.  A number is an       *)
(* integer count of quanta (One quanta make 1.0) and every arithmetic      *)
(* result is rounded to MantBits significant bits, ties to even.           *)
(***************************************************************************)
EXTENDS Integers, Sequences, FiniteSets, TLC

\* ------------------------------------------------------------------ bounds
\* significant bits of an ikreal
MantBits == 3
\* fractional bits of the quantum: One == 2^FracBits quanta make 1.0
FracBits == 1
\* most chains of a chain tree
MaxChains == 4
\* most bones of one chain
MaxChainBones == 2
\* largest max_iterations of the algorithm configuration
MaxIter == 2
\* most calls of solve on one solver
MaxSolves == 2

\* ------------------------------------------------------- program constants
\* the effector feature bit tested by calculate_target_data
IK_EFFECTOR_WEIGHT_NLERP == 1

\* ----------------------------------------------------------------- ikreal
One == 2 ^ FracBits

\* TRUE, once v has been computed: a loop that asks this of its intermediate
\* result before going on computes step by step
Computed(v) == v = v

Abs(x) == IF x < 0 THEN -x ELSE x
Sign(x) == IF x < 0 THEN -1 ELSE 1

\* the least e >= 0 with mag / den < 2^MantBits * 2^e
Binade(mag, den) ==
    CHOOSE e \in 0 .. mag :
        /\ mag < (2 ^ MantBits) * (2 ^ e) * den
        /\ e > 0 => mag >= (2 ^ MantBits) * (2 ^ (e - 1)) * den

\* which way a quotient q with remainder r of step goes: up by 1, or not
RoundUp(q, r, step) ==
    IF 2 * r > step THEN 1
    ELSE IF 2 * r = step THEN q % 2
    ELSE 0

\* mag / den (mag >= 0) rounded to the nearest multiple of step / den
RoundAt(mag, den, step) ==
    ((mag \div step) + RoundUp(mag \div step, mag % step, step)) * (step \div den)

\* num / den (den > 0) rounded to the nearest ikreal, ties to even
Round(num, den) ==
    Sign(num) * RoundAt(Abs(num), den, (2 ^ Binade(Abs(num), den)) * den)

\* --------------------------------------------------- vec3 / quat primitives
ik_vec3_add_vec3(a, b) == Round(a + b, 1)
ik_vec3_sub_vec3(a, b) == Round(a - b, 1)
ik_vec3_mul_scalar(a, s) == Round(a * s, One)
ik_vec3_div_scalar(a, n) == Round(a, n)
ik_vec3_negate(a) == -a
ik_vec3_length(a) == Abs(a)
\* a unit vector along the direction of a; the zero vector stays zero
ik_vec3_normalize(a) == IF a = 0 THEN 0 ELSE Sign(a) * One
\* the rotation that turns +Z into the direction of v
ik_quat_angle_of(v) == IF v < 0 THEN -1 ELSE 1
ik_quat_mul_quat(q, d) == q * d
ik_quat_mul_quat_conj(q, d) == q * d
ik_vec3_rotate_quat(v, q) == q * v
ik_vec3_rotate_quat_conj(v, q) == q * v

\* ------------------------------------------------------------- the skeleton
\* A subtree is [n, par, seed]: n chains, chain c > 1 hangs off chain par[c],
\* and seed fixes the bones' geometry.
Subtrees ==
    UNION {{[n |-> m, par |-> f, seed |-> s] :
                f \in {g \in [2 .. m -> 1 .. m] : \A c \in 2 .. m : g[c] < c},
                s \in 0 .. 2}
            : m \in 1 .. MaxChains}

NULL == 0

\* the skeleton has one static bone above the base bone when the seed is odd
HasAncestor(t) == t.seed % 2 = 1
BonesIn(t, c) == 1 + ((c + t.seed) % MaxChainBones)

RECURSIVE FirstBone(_, _)
\* the id before the ids of chain c's bones
FirstBone(t, c) ==
    IF c = 1 THEN (IF HasAncestor(t) THEN 1 ELSE 0)
    ELSE FirstBone(t, c - 1) + BonesIn(t, c - 1)

NumBones(t) == FirstBone(t, t.n) + BonesIn(t, t.n)

\* the ids of {1..k} in increasing order
RECURSIVE SortedSeq(_)
SortedSeq(S) ==
    IF S = {} THEN << >>
    ELSE LET m == CHOOSE x \in S : \A y \in S : x <= y
         IN  <<m>> \o SortedSeq(S \ {m})

\* struct ik_chain: bones are stored tip first, children in storage order
BuildChains(t) ==
    [c \in 1 .. t.n |->
        [bones    |-> [i \in 1 .. BonesIn(t, c) |->
                          FirstBone(t, c) + BonesIn(t, c) + 1 - i],
         children |-> SortedSeq({d \in 2 .. t.n : t.par[d] = c})]]

chain_get_tip_bone(ct, c) == ct[c].bones[1]
chain_get_base_bone(ct, c) == ct[c].bones[Len(ct[c].bones)]
chain_child_count(ct, c) == Len(ct[c].children)

RECURSIVE chain_count(_, _)
RECURSIVE CountChildren(_, _, _)
\* the chains of the children of chain c from the i-th on
CountChildren(ct, c, i) ==
    IF i > Len(ct[c].children) THEN 0
    ELSE chain_count(ct, ct[c].children[i]) + CountChildren(ct, c, i + 1)

chain_count(ct, c) == 1 + CountChildren(ct, c, 1)

\* the number of leaves of the subtree
subtree_leaves(t) ==
    Cardinality({c \in 1 .. t.n : \A d \in 2 .. t.n : t.par[d] # c})

\* the parent of each bone (NULL above the top of the skeleton)
ParentOf(t, b) ==
    LET ct == BuildChains(t)
        c  == CHOOSE d \in 1 .. t.n : \E i \in DOMAIN ct[d].bones : ct[d].bones[i] = b
    IN  IF b # chain_get_base_bone(ct, c) THEN b - 1
        ELSE IF c = 1 THEN (IF HasAncestor(t) THEN 1 ELSE NULL)
        ELSE chain_get_tip_bone(ct, t.par[c])

NoEffector == [target_position |-> 0, weight |-> 0, features |-> 0, attached |-> FALSE]

\* struct ik_bone of every bone of the skeleton, as the configuration layer
\* leaves it: the effectors sit on the tip bones of the leaf chains
MakeBones(t, w, f, polepat) ==
    LET ct == BuildChains(t)
        IsTip(b) == \E c \in 1 .. t.n : chain_get_tip_bone(ct, c) = b
        IsLeafTip(b) ==
            \E c \in 1 .. t.n : /\ chain_get_tip_bone(ct, c) = b
                                /\ chain_child_count(ct, c) = 0
        Targets == <<1, 6 * One, -5>>
    IN  [b \in 1 .. NumBones(t) |->
            [position |-> Round((b * (t.seed + 1)) % 2, 1),
             rotation |-> IF (b + t.seed) % 3 = 0 THEN -1 ELSE 1,
             length   |-> Round(One * (1 + ((b + t.seed) % 2)), 1),
             parent   |-> IF HasAncestor(t) /\ b = 1 THEN NULL ELSE ParentOf(t, b),
             pole     |-> CASE polepat = 0 -> FALSE
                            [] polepat = 1 -> IsTip(b)
                            [] OTHER       -> b % 3 # 0,
             effector |-> IF IsLeafTip(b)
                          THEN [target_position |-> Round(Targets[1 + ((b + t.seed) % 3)], 1),
                                weight |-> w, features |-> f, attached |-> TRUE]
                          ELSE NoEffector]]

\* the effector and pole configurations tried: every effector's weight and
\* feature flags, and where the poles sit (0: nowhere, 1: on every chain's
\* tip bone, 2: on the bones whose id is no multiple of 3)
Configurations ==
    <<[weight |-> 0,           features |-> 0,                        poles |-> 0],
      [weight |-> One \div 2,  features |-> 0,                        poles |-> 1],
      [weight |-> One,         features |-> 0,                        poles |-> 2],
      [weight |-> One \div 2,  features |-> IK_EFFECTOR_WEIGHT_NLERP, poles |-> 2]>>

\* --------------------------------------------------------------- the state
VARIABLES
    subtree,           \* the subtree handed to init
    bones,             \* struct ik_bone, by bone id
    root_bone,         \* solver->root_bone
    algorithm,         \* solver->algorithm: max_iterations, tolerance
    chain_tree,        \* solver->chain_tree: the chains, by chain id (1 is the root chain)
    chain_tree_live,   \* chain_tree_init has run and chain_tree_deinit has not
    effector_chains,   \* solver->effector_chains: the array's contents
    target_positions,  \* solver->target_positions: the array's contents
    heap,              \* which of the two arrays are allocated
    num_effectors,     \* solver->num_effectors
    pc,                \* the solver's life: "uninit", then "failed" or "ready"
                       \* ("loop" and "return" inside fabrik_solve), then "destroyed"
    iteration,         \* fabrik_solve's local
    result,            \* what the last call of init or solve returned
    log,               \* the messages ik_log_printf was handed by the last init
    solves,            \* the calls of solve since init (history, not program state)
    trace              \* observations of the last call (history, not program state)

vars == <<subtree, bones, root_bone, algorithm, chain_tree, chain_tree_live,
          effector_chains, target_positions, heap, num_effectors, pc, iteration,
          result, log, solves, trace>>

\* the content of memory MALLOC returns
Uninitialized == "uninitialized"

\* trace.call names the last call; the other fields are what it did:
\*   init    acquired, released: the resources taken and given back, in order;
\*           stored, in_bounds, asserted: store_effector_chains' cursor at the
\*           end, whether it stayed inside the array, the sanity check's outcome
\*   solve   target_writes: the calls of calculate_target_data; sweeps: the
\*           calls of solve_chain_forwards; backward: the calls of a backward
\*           pass; converged: all_targets_reached's last answer; reads, work,
\*           in_bounds: the last sweep's record; entry: the state at entry
NoTrace ==
    [call |-> "none", acquired |-> << >>, released |-> << >>, stored |-> 0,
     asserted |-> TRUE, in_bounds |-> TRUE, sweeps |-> 0, target_writes |-> 0,
     backward |-> 0, converged |-> FALSE, reads |-> << >>, work |-> << >>,
     entry |-> << >>]

Init ==
    /\ subtree \in Subtrees
    /\ \E k \in DOMAIN Configurations :
          bones = MakeBones(subtree, Configurations[k].weight,
                            Configurations[k].features, Configurations[k].poles)
    /\ root_bone = 1
    /\ algorithm \in [max_iterations : 0 .. MaxIter, tolerance : {0, One}]
    /\ chain_tree = << >>
    /\ chain_tree_live = FALSE
    /\ effector_chains = << >>
    /\ target_positions = << >>
    /\ heap = {}
    /\ num_effectors = 0
    /\ pc = "uninit"
    /\ iteration = 0
    /\ result = 0
    /\ log = << >>
    /\ solves = 0
    /\ trace = NoTrace

\* ----------------------------------------------------------- validate_poles
RECURSIVE validate_poles_recursive(_, _, _)
RECURSIVE ValidateChildren(_, _, _, _, _)
\* the loop over the children, from the i-th on; acc is [found, log]: the
\* count so far and the warnings printed, in order
ValidateChildren(ct, bs, chain, i, acc) ==
    IF i > Len(ct[chain].children) THEN acc
    ELSE LET r == validate_poles_recursive(ct, bs, ct[chain].children[i])
         IN  ValidateChildren(ct, bs, chain, i + 1,
                              [found |-> acc.found + r.found, log |-> acc.log \o r.log])

\* a message: its level, which of the format strings, and the arguments
PoleWarning(bone) ==
    [level |-> "IK_WARN", what |-> "pole", bone |-> bone, numbers |-> << >>]

RECURSIVE ValidateBones(_, _, _, _, _)
\* the loop over the chain's bones without the test for the tip bone
ValidateBones_tip_too(ct, bs, chain, i, acc) ==
    IF i > Len(ct[chain].bones) THEN acc
    ELSE LET bone == ct[chain].bones[i]
         IN  IF bs[bone].pole
             THEN ValidateBones(ct, bs, chain, i + 1,
                                [found |-> acc.found + 1,
                                 log   |-> Append(acc.log, PoleWarning(bone))])
             ELSE ValidateBones(ct, bs, chain, i + 1, acc)

\* the loop over the chain's bones, from the i-th on
ValidateBones(ct, bs, chain, i, acc) ==
    IF i > Len(ct[chain].bones) THEN acc
    ELSE LET bone == ct[chain].bones[i]
         IN  IF bone = chain_get_tip_bone(ct, chain)
             THEN ValidateBones(ct, bs, chain, i + 1, acc)
             ELSE IF bs[bone].pole
             THEN ValidateBones(ct, bs, chain, i + 1,
                                [found |-> acc.found + 1,
                                 log   |-> Append(acc.log, PoleWarning(bone))])
             ELSE ValidateBones(ct, bs, chain, i + 1, acc)

\* [found, log]: the count returned and the warnings printed
validate_poles_recursive(ct, bs, chain) ==
    ValidateBones(ct, bs, chain, 1,
                  ValidateChildren(ct, bs, chain, 1, [found |-> 0, log |-> << >>]))

\* the warnings validate_poles prints
validate_poles(ct, bs) ==
    LET r == validate_poles_recursive(ct, bs, 1)
    IN  IF r.found # 0
        THEN Append(r.log, [level |-> "IK_WARN", what |-> "summary", bone |-> NULL,
                            numbers |-> << >>])
        ELSE r.log

\* ---------------------------------------------------- store_effector_chains
RECURSIVE store_effector_bones_recursive(_, _, _)
RECURSIVE StoreChildren(_, _, _, _)
\* the loop over the children, from the i-th on
StoreChildren(ct, st, chain, i) ==
    IF i > Len(ct[chain].children) THEN st
    ELSE StoreChildren(ct, store_effector_bones_recursive(ct, st, ct[chain].children[i]),
                       chain, i + 1)

\* *store = chain; store++: st is [arr, store, in_bounds]: the array, the
\* write cursor (0-based) and whether every write so far fell inside the array
StoreChain(st, chain) ==
    [arr       |-> IF st.store < Len(st.arr)
                   THEN [st.arr EXCEPT ![st.store + 1] = chain]
                   ELSE st.arr,
     store     |-> st.store + 1,
     in_bounds |-> st.in_bounds /\ st.store < Len(st.arr)]

\* the recursion without the test for a chain without children
store_every_chain(ct, st, chain) == StoreChain(StoreChildren(ct, st, chain, 1), chain)

store_effector_bones_recursive(ct, st, chain) ==
    LET after == StoreChildren(ct, st, chain, 1)
    IN  IF chain_child_count(ct, chain) = 0 THEN StoreChain(after, chain) ELSE after

\* [arr, store, in_bounds, asserted]: asserted is the sanity check's outcome
store_effector_chains(ct, arr, n) ==
    LET st == store_effector_bones_recursive(
                  ct, [arr |-> arr, store |-> 0, in_bounds |-> TRUE], 1)
    IN  [arr |-> st.arr, store |-> st.store, in_bounds |-> st.in_bounds,
         asserted |-> (st.store = n)]

\* ------------------------------------------------------------- fabrik_init
InitOutcomes ==
    {"build_chain_tree_failed", "alloc_effector_bones_failed",
     "alloc_target_positions_failed", "ok"}

\* what fabrik_init acquires, in order, up to the step that fails
InitAcquires(outcome) ==
    <<"chain_tree">>
    \o (IF outcome \in {"alloc_target_positions_failed", "ok"}
        THEN <<"effector_chains">> ELSE << >>)
    \o (IF outcome = "ok" THEN <<"target_positions">> ELSE << >>)

\* the error labels without the FREE of effector_chains
InitReleases_chain_tree_only(outcome) ==
    IF outcome # "ok" THEN <<"chain_tree">> ELSE << >>

\* what fabrik_init's error labels release, in order
InitReleases(outcome) ==
    (IF outcome = "alloc_target_positions_failed" THEN <<"effector_chains">> ELSE << >>)
    \o (IF outcome # "ok" THEN <<"chain_tree">> ELSE << >>)

Range(seq) == {seq[i] : i \in DOMAIN seq}
Count(seq, x) == Cardinality({i \in DOMAIN seq : seq[i] = x})

\* what is held after acquiring acq and releasing rel
Held(acq, rel) == {r \in Range(acq) : Count(acq, r) > Count(rel, r)}

fabrik_init(outcome) ==
    LET ct   == BuildChains(subtree)
        n    == subtree_leaves(subtree)
        acq  == InitAcquires(outcome)
        rel  == InitReleases(outcome)
        held == Held(acq, rel)
        blank == [i \in 1 .. n |-> Uninitialized]
        st   == IF outcome = "ok" /\ Computed(ct)
                THEN store_effector_chains(ct, blank, n)
                ELSE [arr |-> blank, store |-> 0, in_bounds |-> TRUE, asserted |-> TRUE]
    IN  /\ effector_chains' = IF "effector_chains" \in held THEN st.arr ELSE << >>
        /\ log' = IF outcome = "ok"
                  THEN Append(validate_poles(ct, bones),
                              [level |-> "IK_DEBUG", what |-> "initialized",
                               bone |-> NULL, numbers |-> <<n, chain_count(ct, 1)>>])
                  ELSE << >>
        /\ trace' = [NoTrace EXCEPT !.call = "init",
                                    !.acquired = acq,
                                    !.released = rel,
                                    !.stored = st.store,
                                    !.in_bounds = st.in_bounds,
                                    !.asserted = st.asserted,
                                    !.entry = [bones |-> bones]]
        /\ chain_tree' = IF "chain_tree" \in held THEN ct ELSE << >>
        /\ chain_tree_live' = ("chain_tree" \in held)
        /\ target_positions' = IF "target_positions" \in held THEN blank ELSE << >>
        /\ heap' = held \ {"chain_tree"}
        /\ num_effectors' = IF outcome # "build_chain_tree_failed" THEN n
                            ELSE num_effectors
        /\ result' = IF outcome = "ok" THEN 0 ELSE -1
        /\ pc' = IF outcome = "ok" THEN "ready" ELSE "failed"
        /\ solves' = 0
        /\ UNCHANGED <<subtree, bones, root_bone, algorithm, iteration>>

FabrikInit ==
    /\ pc = "uninit"
    /\ \E outcome \in InitOutcomes : fabrik_init(outcome)

\* ----------------------------------------------------------- fabrik_deinit
FabrikDeinit ==
    /\ pc = "ready"
    /\ chain_tree' = << >>
    /\ chain_tree_live' = FALSE
    /\ effector_chains' = << >>
    /\ target_positions' = << >>
    /\ heap' = {}
    /\ trace' = [NoTrace EXCEPT
                    !.call = "deinit",
                    !.released = <<"chain_tree", "target_positions", "effector_chains">>]
    /\ pc' = "destroyed"
    /\ UNCHANGED <<subtree, bones, root_bone, algorithm, num_effectors, iteration,
                   result, log, solves>>

\* ------------------------------------------------- ik_transform_bone_pos_*
\* a position in the space of bone b, expressed in the space of b's parent:
\* rotated by b's rotation and moved by b's offset from the parent's tail
ToParent(bs, v, b) ==
    ik_vec3_add_vec3(
        ik_vec3_add_vec3(ik_vec3_rotate_quat(v, bs[b].rotation), bs[b].position),
        IF bs[b].parent = NULL THEN 0 ELSE bs[bs[b].parent].length)

\* the inverse of ToParent
FromParent(bs, v, b) ==
    ik_vec3_rotate_quat_conj(
        ik_vec3_sub_vec3(
            ik_vec3_sub_vec3(v, IF bs[b].parent = NULL THEN 0
                                ELSE bs[bs[b].parent].length),
            bs[b].position),
        bs[b].rotation)

RECURSIVE ik_transform_bone_pos_l2g(_, _, _, _)
\* pos, in the space of bone tip, expressed in the space of bone base
ik_transform_bone_pos_l2g(bs, pos, tip, base) ==
    IF tip = base \/ tip = NULL \/ ~Computed(pos) THEN pos
    ELSE ik_transform_bone_pos_l2g(bs, ToParent(bs, pos, tip), bs[tip].parent, base)

RECURSIVE BonesBelow(_, _, _)
\* the bones from below base down to tip, top first
BonesBelow(bs, base, tip) ==
    IF tip = base \/ tip = NULL THEN << >>
    ELSE Append(BonesBelow(bs, base, bs[tip].parent), tip)

RECURSIVE Descend(_, _, _, _)
\* pos taken down the bones of path, from the i-th on
Descend(bs, pos, path, i) ==
    IF i > Len(path) \/ ~Computed(pos) THEN pos
    ELSE Descend(bs, FromParent(bs, pos, path[i]), path, i + 1)

\* pos, in the space of bone base, expressed in the space of bone tip
ik_transform_bone_pos_g2l(bs, pos, base, tip) ==
    LET path == BonesBelow(bs, base, tip)
    IN  IF Computed(path) THEN Descend(bs, pos, path, 1) ELSE pos

ik_bone_get_parent(bs, b) == bs[b].parent

\* --------------------------------------------------- calculate_target_data
\* the effector's target in the space of the base bone's parent
TransformedTarget(bs, ct, root, eff_chain) ==
    LET base_bone == chain_get_base_bone(ct, 1)
        eff       == bs[chain_get_tip_bone(ct, eff_chain)].effector
    IN  ik_transform_bone_pos_g2l(bs, eff.target_position,
                                  ik_bone_get_parent(bs, root),
                                  ik_bone_get_parent(bs, base_bone))

\* the tip bone's position in the space of the base bone's parent
TipPos(bs, ct, eff_chain) ==
    LET base_bone == chain_get_base_bone(ct, 1)
        tip_bone  == chain_get_tip_bone(ct, eff_chain)
    IN  ik_transform_bone_pos_l2g(bs, bs[tip_bone].position, tip_bone,
                                  ik_bone_get_parent(bs, base_bone))

\* lerp by effector weight
Lerp(target, tip_pos, weight) ==
    ik_vec3_add_vec3(ik_vec3_mul_scalar(ik_vec3_sub_vec3(target, tip_pos), weight),
                     tip_pos)

\* nlerp the lerped target around the effector chain's base bone
Nlerp(bs, ct, root, eff_chain, target) ==
    LET base_bone    == chain_get_base_bone(ct, 1)
        tip_bone     == chain_get_tip_bone(ct, eff_chain)
        eff          == bs[tip_bone].effector
        subbase_bone == chain_get_base_bone(ct, eff_chain)
        to_tip == ik_transform_bone_pos_l2g(bs, bs[tip_bone].position, tip_bone,
                                            subbase_bone)
        to_eff == ik_transform_bone_pos_g2l(bs, eff.target_position,
                                            ik_bone_get_parent(bs, root), subbase_bone)
        distance_to_target ==
            ik_vec3_add_vec3(
                ik_vec3_mul_scalar(ik_vec3_length(to_eff), eff.weight),
                ik_vec3_mul_scalar(ik_vec3_length(to_tip),
                                   ik_vec3_sub_vec3(One, eff.weight)))
        pinned == ik_transform_bone_pos_g2l(bs, target,
                                            ik_bone_get_parent(bs, base_bone),
                                            subbase_bone)
    IN  ik_transform_bone_pos_l2g(
            bs, ik_vec3_mul_scalar(ik_vec3_normalize(pinned), distance_to_target),
            subbase_bone, ik_bone_get_parent(bs, base_bone))

\* the lerped target, nlerped when the effector asks for it
Smoothed(bs, ct, root, eff_chain, target) ==
    IF (bs[chain_get_tip_bone(ct, eff_chain)].effector.features
            \div IK_EFFECTOR_WEIGHT_NLERP) % 2 = 1
    THEN Nlerp(bs, ct, root, eff_chain, target)
    ELSE target

\* the entry calculate_target_data stores for effector chain eff_chain
ActualTarget(bs, ct, root, eff_chain) ==
    Smoothed(bs, ct, root, eff_chain,
             Lerp(TransformedTarget(bs, ct, root, eff_chain),
                  TipPos(bs, ct, eff_chain),
                  bs[chain_get_tip_bone(ct, eff_chain)].effector.weight))

\* target_positions after the loop over i = 0 .. num_effectors - 1
calculate_target_data(bs, ct, root, chains, n, targets) ==
    [i \in DOMAIN targets |->
        IF i <= n THEN ActualTarget(bs, ct, root, chains[i]) ELSE targets[i]]

\* ------------------------------------------------ solve_chain_forwards
\* the tip bone's step: [bs, target]
ForwardTip(bs, bone, target) ==
    LET delta    == ik_quat_angle_of(target)
        rotation == ik_quat_mul_quat(bs[bone].rotation, delta)
        t1 == ik_vec3_sub_vec3(ik_vec3_length(target), bs[bone].length)
        t2 == ik_vec3_rotate_quat(t1, rotation)
    IN  [bs     |-> [bs EXCEPT ![bone].rotation = rotation],
         target |-> ik_vec3_add_vec3(t2, bs[bone].position)]

\* the bone pair turned: t0 is the target in the bone's space, child_tail_pos
\* the child's tail there
TurnPair(bs, bone, child, t0, child_tail_pos) ==
    LET delta == ik_quat_mul_quat_conj(ik_quat_angle_of(t0),
                                       ik_quat_angle_of(child_tail_pos))
        rotation == ik_quat_mul_quat(bs[bone].rotation, delta)
    IN  [bs     |-> [bs EXCEPT ![bone].rotation = rotation,
                               ![child].rotation =
                                   ik_quat_mul_quat_conj(bs[child].rotation, delta)],
         target |-> ik_vec3_add_vec3(
                        ik_vec3_rotate_quat(
                            ik_vec3_sub_vec3(ik_vec3_rotate_quat_conj(t0, delta),
                                             child_tail_pos),
                            rotation),
                        bs[bone].position)]

\* one bone pair's step with child_tail_pos written through to the child bone
ForwardPair_moving_child(bs, bone, child, target) ==
    LET r == TurnPair(bs, bone, child,
                      ik_vec3_add_vec3(target, bs[bone].length),
                      ik_vec3_add_vec3(bs[child].position, bs[bone].length))
    IN  [r EXCEPT !.bs[child].position =
                      ik_vec3_add_vec3(bs[child].position, bs[bone].length)]

\* one bone pair's step: [bs, target]
ForwardPair(bs, bone, child, target) ==
    TurnPair(bs, bone, child,
             ik_vec3_add_vec3(target, bs[bone].length),
             ik_vec3_add_vec3(bs[child].position, bs[bone].length))

\* what the target cursor reads: the entry, when the cursor is inside the array
ReadTarget(targets, store) ==
    IF store < Len(targets) THEN targets[store + 1] ELSE Uninitialized

\* a mean that takes every chain to have two children
Average_of_two(sum, avg_count) == ik_vec3_div_scalar(sum, 2)

\* this chain's working target from its children's results: their mean
Average(sum, avg_count) == ik_vec3_div_scalar(sum, avg_count)

\* a leaf chain's working target read without advancing the cursor
PopTarget_in_place(ct, targets, st, chain, base_bone) ==
    [st EXCEPT
        !.target = ik_transform_bone_pos_g2l(
                       st.bs, ReadTarget(targets, st.store),
                       ik_bone_get_parent(st.bs, base_bone),
                       chain_get_tip_bone(ct, chain)),
        !.reads = Append(st.reads, [index |-> st.store, chain |-> chain]),
        !.in_bounds = st.in_bounds /\ st.store < Len(targets)]

\* a leaf chain's working target: the entry under the cursor, moved into the
\* tip bone's space, and the cursor advanced
PopTarget(ct, targets, st, chain, base_bone) ==
    [st EXCEPT
        !.target = ik_transform_bone_pos_g2l(
                       st.bs, ReadTarget(targets, st.store),
                       ik_bone_get_parent(st.bs, base_bone),
                       chain_get_tip_bone(ct, chain)),
        !.store = st.store + 1,
        !.reads = Append(st.reads, [index |-> st.store, chain |-> chain]),
        !.in_bounds = st.in_bounds /\ st.store < Len(targets)]

RECURSIVE SolvePairs(_, _, _, _)
\* the loop over the bone pairs, from the i-th on: acc is [bs, target]
SolvePairs(ct, chain, i, acc) ==
    IF i >= Len(ct[chain].bones) \/ ~Computed(acc) THEN acc
    ELSE SolvePairs(ct, chain, i + 1,
                    ForwardPair(acc.bs, ct[chain].bones[i + 1], ct[chain].bones[i],
                                acc.target))

\* the record with the chain's working target in place: the entry under the
\* cursor for a leaf chain, the mean of the children's results otherwise
PickTarget(ct, targets, chain, base_bone, kidsdone) ==
    IF Len(kidsdone.kids) = 0
    THEN PopTarget(ct, targets, kidsdone.st, chain, base_bone)
    ELSE [kidsdone.st EXCEPT
             !.target = Average(kidsdone.st.target, Len(kidsdone.kids))]

\* the record once the chain's bones are turned: done is [bs, target]
Turned(chain, kids, picked, done) ==
    [picked EXCEPT
        !.work = Append(picked.work,
                        [chain |-> chain, target |-> picked.target,
                         kids |-> kids, result |-> done.target]),
        !.bs = done.bs,
        !.target = done.target]

\* the tip bone and the bone pairs turned towards the working target
TurnChain(ct, chain, kids, picked) ==
    IF Computed(picked)
    THEN Turned(chain, kids, picked,
                SolvePairs(ct, chain, 1,
                           ForwardTip(picked.bs, chain_get_tip_bone(ct, chain),
                                      picked.target)))
    ELSE picked

\* the chain's own part, after its children: kidsdone is [st, kids], st the
\* record with target the sum of the children's results, kids those results
SolveOwn(ct, targets, chain, base_bone, kidsdone) ==
    TurnChain(ct, chain, kidsdone.kids,
              PickTarget(ct, targets, chain, base_bone, kidsdone))

RECURSIVE solve_chain_forwards_recurse(_, _, _, _, _)
RECURSIVE SolveChildren(_, _, _, _, _, _, _)
\* the loop over the children, from the i-th on: acc is the record with
\* target the running sum, kids the children's results so far
SolveChildren(ct, targets, chain, base_bone, i, acc, kids) ==
    IF i > Len(ct[chain].children) THEN [st |-> acc, kids |-> kids]
    ELSE LET r == solve_chain_forwards_recurse(ct, targets, acc,
                                               ct[chain].children[i], base_bone)
         IN  IF Computed(r)
             THEN SolveChildren(ct, targets, chain, base_bone, i + 1,
                                [r EXCEPT !.target = ik_vec3_add_vec3(acc.target, r.target)],
                                Append(kids, r.target))
             ELSE [st |-> acc, kids |-> kids]

\* st is [bs, store, reads, work, in_bounds, target]: the bones, the target
\* cursor (0-based), and for the record the reads of the cursor, each chain's
\* working target with its children's results, and whether every read fell
\* inside the array; target is the value returned
solve_chain_forwards_recurse(ct, targets, st, chain, base_bone) ==
    LET kidsdone == SolveChildren(ct, targets, chain, base_bone, 1,
                                  [st EXCEPT !.target = 0], << >>)
    IN  IF Computed(kidsdone)
        THEN SolveOwn(ct, targets, chain, base_bone, kidsdone)
        ELSE st

\* the value returned set up for the backward pass
Rebased(bs, base_bone, st) ==
    [st EXCEPT !.target =
        ik_vec3_add_vec3(
            ik_vec3_negate(ik_vec3_sub_vec3(st.target, bs[base_bone].position)),
            bs[base_bone].position)]

\* one forward sweep: the record of the recursion, target the value returned
solve_chain_forwards(ct, targets, bs) ==
    Rebased(bs, chain_get_base_bone(ct, 1),
            solve_chain_forwards_recurse(
                ct, targets,
                [bs |-> bs, store |-> 0, reads |-> << >>, work |-> << >>,
                 in_bounds |-> TRUE, target |-> 0],
                1, chain_get_base_bone(ct, 1)))

\* ---------------------------------------------------------- fabrik_solve
\* a convergence check that always reports convergence
all_targets_reached_always(tol_squared) == tol_squared >= 0

all_targets_reached(tol_squared) == FALSE

\* fabrik_solve up to the loop: the targets are calculated
SolveEnter ==
    /\ pc = "ready"
    /\ solves < MaxSolves
    /\ solves' = solves + 1
    /\ iteration' = algorithm.max_iterations
    /\ target_positions' = calculate_target_data(bones, chain_tree, root_bone,
                                                 effector_chains, num_effectors,
                                                 target_positions)
    /\ trace' = [NoTrace EXCEPT
                    !.call = "solve",
                    !.target_writes = 1,
                    !.entry = [bones |-> bones, chain_tree |-> chain_tree,
                               effector_chains |-> effector_chains,
                               num_effectors |-> num_effectors]]
    /\ pc' = "loop"
    /\ UNCHANGED <<subtree, bones, root_bone, algorithm, chain_tree, chain_tree_live,
                   effector_chains, heap, num_effectors, result, log>>

\* the loop's body with calculate_target_data moved into it: st is the sweep's record
Swept_recalculating(st, reached) ==
    /\ bones' = st.bs
    /\ target_positions' =
          calculate_target_data(st.bs, chain_tree, root_bone, effector_chains,
                                num_effectors, target_positions)
    /\ trace' = [trace EXCEPT !.sweeps = trace.sweeps + 1,
                              !.target_writes = trace.target_writes + 1,
                              !.reads = st.reads,
                              !.work = st.work,
                              !.in_bounds = st.in_bounds,
                              !.converged = reached]
    /\ pc' = IF reached THEN "return" ELSE "loop"

\* the loop's body: st is the sweep's record, reached the convergence check's answer
Swept(st, reached) ==
    /\ bones' = st.bs
    /\ target_positions' = target_positions
    /\ trace' = [trace EXCEPT !.sweeps = trace.sweeps + 1,
                              !.reads = st.reads,
                              !.work = st.work,
                              !.in_bounds = st.in_bounds,
                              !.converged = reached]
    /\ pc' = IF reached THEN "return" ELSE "loop"

\* the loop's test, and its body when the test passes
SolveIterate ==
    /\ pc = "loop"
    /\ iteration' = iteration - 1
    /\ IF iteration > 0
       THEN Swept(solve_chain_forwards(chain_tree, target_positions, bones),
                  all_targets_reached(
                      ik_vec3_mul_scalar(algorithm.tolerance, algorithm.tolerance)))
       ELSE /\ pc' = "return"
            /\ UNCHANGED <<bones, target_positions, trace>>
    /\ UNCHANGED <<subtree, root_bone, algorithm, chain_tree, chain_tree_live,
                   effector_chains, heap, num_effectors, result, log, solves>>

SolveReturn ==
    /\ pc = "return"
    /\ result' = algorithm.max_iterations - iteration
    /\ pc' = "ready"
    /\ UNCHANGED <<subtree, bones, root_bone, algorithm, chain_tree, chain_tree_live,
                   effector_chains, target_positions, heap, num_effectors, iteration,
                   log, solves, trace>>

Next == FabrikInit \/ FabrikDeinit \/ SolveEnter \/ SolveIterate \/ SolveReturn

Spec == Init /\ [][Next]_vars

\* ================================================================ claims

Solved == pc = "ready" /\ trace.call = "solve"

Initialized == pc = "ready" /\ trace.call = "init"

\* C1: the value solve() returns equals the number of forward sweeps it ran.
C1_ReturnsIterationsPerformed == Solved => result = trace.sweeps

\* C1, as the code has it: solve() returns one more than the number of forward
\* sweeps it ran, since the loop's last test decrements the counter once more.
C1_ReturnsOneMore == Solved => result = trace.sweeps + 1

C1_Witness ==
    Solved /\ algorithm.max_iterations = 0 /\ trace.sweeps = 0 /\ result = 1

\* C2: a solve() call runs exactly max_iterations forward sweeps: while it loops
\* the sweeps done and the remaining count add up to max_iterations, the
\* convergence check never reports convergence, no backward pass runs, and it
\* leaves the loop with max_iterations sweeps done.
C2_ExactlyMaxIterationsSweeps ==
    /\ pc = "loop" => /\ iteration >= 0
                      /\ trace.sweeps + iteration = algorithm.max_iterations
    /\ pc \in {"loop", "return"} => ~trace.converged /\ trace.backward = 0
    /\ pc = "return" => trace.sweeps = algorithm.max_iterations
    /\ Solved => trace.sweeps = algorithm.max_iterations

C2_Witness ==
    /\ pc = "return"
    /\ algorithm.max_iterations = MaxIter
    /\ algorithm.tolerance > 0
    /\ trace.sweeps = MaxIter

\* C3: in a solve() call the targets are calculated once, all num_effectors of
\* them, from the bones as they were before the first sweep, and no sweep
\* writes them again; so too when max_iterations is 0.
C3_TargetsCalculatedOnce ==
    trace.call = "solve" =>
        /\ trace.target_writes = 1
        /\ Len(target_positions) = num_effectors
        /\ \A i \in 1 .. num_effectors :
              target_positions[i] =
                  ActualTarget(trace.entry.bones, chain_tree, root_bone,
                               effector_chains[i])

C3_Witness ==
    /\ pc = "return"
    /\ trace.sweeps >= 1
    /\ trace.target_writes = 1
    /\ \E i \in 1 .. num_effectors :
          target_positions[i] #
              ActualTarget(bones, chain_tree, root_bone, effector_chains[i])

\* the chains without children
Leaves(ct) == {c \in DOMAIN ct : chain_child_count(ct, c) = 0}

RECURSIVE Within(_, _)
\* the chains of the tree below and including chain d
Within(ct, d) ==
    {d} \cup UNION {Within(ct, ct[d].children[i]) : i \in DOMAIN ct[d].children}

\* chain a is met before chain b going depth first through the children in
\* storage order: a lies under an earlier child of some chain than b does
Precedes(ct, a, b) ==
    \E l \in DOMAIN ct : \E i, j \in DOMAIN ct[l].children :
        /\ i < j
        /\ a \in Within(ct, ct[l].children[i])
        /\ b \in Within(ct, ct[l].children[j])

\* C4: after a successful init effector_chains holds num_effectors entries,
\* pairwise distinct, the leaf chains of the tree and all of them, in
\* depth-first order through the children in storage order; the write cursor
\* stayed inside the array and the sanity assertion held.
C4_EffectorChainsAreTheLeaves ==
    pc \in {"ready", "loop", "return"} =>
        /\ num_effectors = Cardinality(Leaves(chain_tree))
        /\ Len(effector_chains) = num_effectors
        /\ Range(effector_chains) = Leaves(chain_tree)
        /\ \A i, j \in DOMAIN effector_chains :
              i < j => /\ effector_chains[i] # effector_chains[j]
                       /\ Precedes(chain_tree, effector_chains[i], effector_chains[j])
        /\ trace.call = "init" => /\ trace.stored = num_effectors
                                  /\ trace.in_bounds
                                  /\ trace.asserted

C4_Witness ==
    /\ Initialized
    /\ trace.stored = 2
    /\ Cardinality(DOMAIN chain_tree) = 4
    /\ effector_chains[1] > effector_chains[2]

Resources == {"chain_tree", "effector_chains", "target_positions"}

\* C5: when init fails, each resource it acquired has been released exactly
\* once, nothing stays allocated and nothing is released that was not
\* acquired; when it succeeds all three resources are held and it returns 0.
C5_InitFailureReleasesAll ==
    trace.call = "init" =>
        /\ pc \in {"failed", "ready"}
        /\ pc = "failed" =>
              /\ result = -1
              /\ \A r \in Resources :
                    /\ Count(trace.acquired, r) <= 1
                    /\ Count(trace.released, r) = Count(trace.acquired, r)
              /\ heap = {}
              /\ ~chain_tree_live
        /\ pc = "ready" =>
              /\ result = 0
              /\ \A r \in Resources :
                    Count(trace.acquired, r) = 1 /\ Count(trace.released, r) = 0
              /\ heap = {"effector_chains", "target_positions"}
              /\ chain_tree_live

C5_Witness ==
    /\ pc = "failed"
    /\ trace.acquired = <<"chain_tree", "effector_chains">>
    /\ trace.released = <<"effector_chains", "chain_tree">>
    /\ heap = {}

\* the bones that carry a pole and are in a chain but not its tip bone
Misplaced ==
    {b \in DOMAIN bones :
        /\ bones[b].pole
        /\ \E c \in DOMAIN chain_tree :
              /\ b \in Range(chain_tree[c].bones)
              /\ b # chain_get_tip_bone(chain_tree, c)}

\* the tip bones that carry a pole
PoledTips ==
    {b \in DOMAIN bones :
        bones[b].pole /\ \E c \in DOMAIN chain_tree : b = chain_get_tip_bone(chain_tree, c)}

Logged(what) == {i \in DOMAIN log : log[i].what = what}

\* C6: validate_poles warns once for each bone that carries a pole and is not
\* the tip bone of its chain, and once more in summary exactly when there is
\* such a bone; a pole on a tip bone brings no warning; the bones and the chain
\* tree are as they were, and init succeeds.
C6_OneWarningPerMisplacedPole ==
    Initialized =>
        /\ \A b \in DOMAIN bones :
              Cardinality({i \in Logged("pole") : log[i].bone = b})
                  = IF b \in Misplaced THEN 1 ELSE 0
        /\ \A i \in Logged("pole") : log[i].bone \in DOMAIN bones
        /\ Cardinality(Logged("summary")) = IF Misplaced # {} THEN 1 ELSE 0
        /\ result = 0
        /\ bones = trace.entry.bones
        /\ chain_tree = BuildChains(subtree)

C6_Witness ==
    /\ Initialized
    /\ Cardinality(Misplaced) >= 2
    /\ PoledTips # {}
    /\ Cardinality(Logged("pole")) = Cardinality(Misplaced)
    /\ Cardinality(Logged("summary")) = 1

\* the effectors whose distance-preserving smoothing flag is off
Unsmoothed ==
    {i \in 1 .. num_effectors :
        LET eff == bones[chain_get_tip_bone(chain_tree, effector_chains[i])].effector
        IN  (eff.features \div IK_EFFECTOR_WEIGHT_NLERP) % 2 = 0}

WeightOf(i) == bones[chain_get_tip_bone(chain_tree, effector_chains[i])].effector.weight

\* C7: with the smoothing flag off the stored target is
\* tip_pos + (transformed_target - tip_pos) * weight, both in the space of
\* the base bone's parent; with weight 0 it is exactly the tip bone's position
\* and with weight 1 exactly the transformed target.
C7_LerpExact ==
    pc = "loop" /\ trace.sweeps = 0 =>
        \A i \in Unsmoothed :
            LET t == TransformedTarget(bones, chain_tree, root_bone, effector_chains[i])
                p == TipPos(bones, chain_tree, effector_chains[i])
            IN  /\ target_positions[i] =
                      ik_vec3_add_vec3(
                          ik_vec3_mul_scalar(ik_vec3_sub_vec3(t, p), WeightOf(i)), p)
                /\ WeightOf(i) = 0 => target_positions[i] = p
                /\ WeightOf(i) = One => target_positions[i] = t

\* C7, as the code has it: the stored target is the formula's value in ikreal
\* arithmetic, each of the three operations rounded; with weight 0 that is
\* exactly the tip bone's position.
C7_LerpAsComputed ==
    pc = "loop" /\ trace.sweeps = 0 =>
        \A i \in Unsmoothed :
            LET t == TransformedTarget(bones, chain_tree, root_bone, effector_chains[i])
                p == TipPos(bones, chain_tree, effector_chains[i])
            IN  /\ target_positions[i] = Round(Round(Round(t - p, 1) * WeightOf(i), One) + p, 1)
                /\ WeightOf(i) = 0 => target_positions[i] = p

\* weight 1, and the stored target is not the transformed target
C7_Witness ==
    /\ pc = "loop" /\ trace.sweeps = 0
    /\ \E i \in Unsmoothed :
          /\ WeightOf(i) = One
          /\ target_positions[i] #
                 TransformedTarget(bones, chain_tree, root_bone, effector_chains[i])

RECURSIVE SumInOrder(_, _)
\* the first n of the values added up in order, in ikreal arithmetic
SumInOrder(values, n) ==
    IF n = 0 THEN 0 ELSE ik_vec3_add_vec3(SumInOrder(values, n - 1), values[n])

\* what the solve of chain c returned in the last sweep
Returned(c) ==
    LET k == CHOOSE i \in DOMAIN trace.work : trace.work[i].chain = c
    IN  trace.work[k].result

\* C8: in a sweep a chain with n >= 1 children works towards the mean of what
\* the solves of its children returned, each counted once, in storage order,
\* the sum divided by n; for two children returning A and B that is (A+B)/2;
\* a precomputed target is read for the chains without children and no others.
C8_TargetIsMeanOfChildren ==
    trace.call = "solve" /\ trace.sweeps >= 1 =>
        /\ {trace.work[k].chain : k \in DOMAIN trace.work} = DOMAIN chain_tree
        /\ Len(trace.work) = Cardinality(DOMAIN chain_tree)
        /\ \A k \in DOMAIN trace.work :
              LET w == trace.work[k]
                  n == chain_child_count(chain_tree, w.chain)
              IN  /\ Len(w.kids) = n
                  /\ \A j \in 1 .. n :
                        w.kids[j] = Returned(chain_tree[w.chain].children[j])
                  /\ n >= 1 => w.target = ik_vec3_div_scalar(SumInOrder(w.kids, n), n)
                  /\ n = 2 => w.target = Round(Round(w.kids[1] + w.kids[2], 1), 2)
        /\ {trace.reads[k].chain : k \in DOMAIN trace.reads} = Leaves(chain_tree)

C8_Witness ==
    /\ trace.call = "solve" /\ trace.sweeps >= 1
    /\ \E k \in DOMAIN trace.work :
          /\ Len(trace.work[k].kids) = 2
          /\ trace.work[k].kids[1] # trace.work[k].kids[2]
          /\ trace.work[k].target # 0

\* C9: in a sweep the target cursor starts at entry 0, its k-th read is of
\* entry k and is made solving the leaf chain effector_chains[k], it reads
\* num_effectors entries, each once, and none at or past num_effectors.
C9_CursorFollowsRegistry ==
    trace.call = "solve" /\ trace.sweeps >= 1 =>
        /\ Len(trace.reads) = num_effectors
        /\ \A k \in DOMAIN trace.reads :
              /\ trace.reads[k].index = k - 1
              /\ trace.reads[k].index < num_effectors
              /\ trace.reads[k].chain = effector_chains[k]
        /\ trace.in_bounds

C9_Witness ==
    /\ trace.call = "solve" /\ trace.sweeps >= 1
    /\ Len(trace.reads) >= 2
    /\ trace.reads[2].index = 1
    /\ trace.reads[1].chain > trace.reads[2].chain

\* a bone without its rotation
Unrotated(bone) == [bone EXCEPT !.rotation = 1]

\* C10: a solve() call changes the bones' rotations and target_positions and
\* nothing else: each bone's position, length, parent, pole and effector, the
\* chain tree, effector_chains and num_effectors are as they were at entry.
C10_SolveChangesOnlyRotations ==
    trace.call = "solve" =>
        /\ DOMAIN bones = DOMAIN trace.entry.bones
        /\ \A b \in DOMAIN bones : Unrotated(bones[b]) = Unrotated(trace.entry.bones[b])
        /\ chain_tree = trace.entry.chain_tree
        /\ effector_chains = trace.entry.effector_chains
        /\ num_effectors = trace.entry.num_effectors

C10_Witness ==
    /\ Solved
    /\ trace.sweeps >= 1
    /\ \E b \in DOMAIN bones : bones[b].rotation # trace.entry.bones[b].rotation
    /\ \E b, c \in DOMAIN bones :
          /\ bones[c].parent = b
          /\ bones[b].rotation # trace.entry.bones[b].rotation
          /\ bones[c].rotation # trace.entry.bones[c].rotation

====
